---- MODULE Spec2Model ----
(***************************************************************************)
(* Model of the recipe query resolver parse_diet_query of diet_app.py.     *)
(*                                                                         *)
(* A Python str is a sequence of one-character strings.  The catalog       *)
(* RECIPES is a sequence of records with a title.  One call of             *)
(* parse_diet_query runs as a chain of steps, one per source line; the     *)
(* page that calls it (food_chatbot_page) calls it again with the same     *)
(* typed text on every re-run of the script.                               *)
(***************************************************************************)
EXTENDS Integers, Sequences, FiniteSets, TLC

VARIABLES RECIPES, STOPWORDS, typed, pc, text, words, matches, fuzzy,
          scans, fuzzyArgs, result, returned,
          selected, recipe,
          session_state, rendered, clicked, runs, at

\* the suggestion picked in food_chatbot_page and the recipe fetched for it
fetchVars == <<selected, recipe>>

\* the page navigation: st.session_state, the page function the script run
\* has called, the widget whose use started the run, the number of runs and
\* the place of the run in the script
navVars == <<session_state, rendered, clicked, runs, at>>

vars == <<RECIPES, STOPWORDS, typed, pc, text, words, matches, fuzzy,
          scans, fuzzyArgs, result, returned, fetchVars, navVars>>

(***************************************************************************)
(* Bounds of the model.                                                    *)
(***************************************************************************)
MaxQueryLen == 3
MaxCatalog == 7
MaxCalls == 2
MaxRuns == 4

(***************************************************************************)
(* Characters: ASCII letters and the space.                                *)
(***************************************************************************)
LowerLetters ==
  <<"a", "b", "c", "d", "e", "f", "g", "h", "i", "j", "k", "l", "m",
    "n", "o", "p", "q", "r", "s", "t", "u", "v", "w", "x", "y", "z">>

UpperLetters ==
  <<"A", "B", "C", "D", "E", "F", "G", "H", "I", "J", "K", "L", "M",
    "N", "O", "P", "Q", "R", "S", "T", "U", "V", "W", "X", "Y", "Z">>

LetterCount == Len(LowerLetters)

LowerSet == {LowerLetters[i] : i \in 1..LetterCount}
UpperSet == {UpperLetters[i] : i \in 1..LetterCount}
Chars == LowerSet \cup UpperSet \cup {" "}

IndexIn(seq, c) == CHOOSE i \in 1..Len(seq) : seq[i] = c

\* str.lower() of one character
LowerOf == [c \in Chars |->
              IF c \in UpperSet THEN LowerLetters[IndexIn(UpperLetters, c)] ELSE c]

\* str.upper() of one character
UpperOf == [c \in Chars |->
              IF c \in LowerSet THEN UpperLetters[IndexIn(LowerLetters, c)] ELSE c]

\* ord() of one character: the order Python compares strings by
OrdOf == [c \in Chars |->
            IF c \in UpperSet THEN 64 + IndexIn(UpperLetters, c)
            ELSE IF c \in LowerSet THEN 96 + IndexIn(LowerLetters, c)
            ELSE 32]

IsSpace(c) == c = " "
IsCased(c) == c \in LowerSet \cup UpperSet

(***************************************************************************)
(* str methods.                                                            *)
(***************************************************************************)
\* s.lower()
Lower(s) == [i \in 1..Len(s) |-> LowerOf[s[i]]]

\* s.strip()
Strip(s) ==
  LET keep == {i \in 1..Len(s) : ~IsSpace(s[i])}
      lo == CHOOSE i \in keep : \A j \in keep : i <= j
      hi == CHOOSE i \in keep : \A j \in keep : j <= i
  IN IF keep = {} THEN <<>> ELSE SubSeq(s, lo, hi)

\* s.split(): the maximal runs of non-whitespace, in order
RECURSIVE SplitFrom(_, _, _, _)
SplitFrom(s, i, cur, acc) ==
  IF i > Len(s)
    THEN IF cur = <<>> THEN acc ELSE Append(acc, cur)
    ELSE IF IsSpace(s[i])
      THEN SplitFrom(s, i + 1, <<>>, IF cur = <<>> THEN acc ELSE Append(acc, cur))
      ELSE SplitFrom(s, i + 1, Append(cur, s[i]), acc)

Split(s) == SplitFrom(s, 1, <<>>, <<>>)

\* s.title(): a cased character is upper-cased when it follows an uncased
\* one (or starts the string) and lower-cased otherwise
Title(s) ==
  [i \in 1..Len(s) |->
     IF i = 1 \/ ~IsCased(s[i - 1]) THEN UpperOf[s[i]] ELSE LowerOf[s[i]]]

\* w in s
Contains(w, s) ==
  \E i \in 0..(Len(s) - Len(w)) : SubSeq(s, i + 1, i + Len(w)) = w

\* a < b for two str
StrLess(a, b) ==
  \/ \E k \in 1..Len(a) :
       /\ k <= Len(b)
       /\ SubSeq(a, 1, k - 1) = SubSeq(b, 1, k - 1)
       /\ OrdOf[a[k]] < OrdOf[b[k]]
  \/ Len(a) < Len(b) /\ SubSeq(b, 1, Len(a)) = a

(***************************************************************************)
(* difflib.SequenceMatcher(a = possibility, b = word), no junk (autojunk   *)
(* only acts on sequences of 200 or more elements).  Indices are Python's: *)
(* 0-based, ranges half-open.                                              *)
(***************************************************************************)
\* j2len[j] while row i is scanned: the length of the common run of a and
\* b that ends at a[i], b[j] and stays inside a[alo:], b[blo:]
RECURSIVE RunLen(_, _, _, _, _, _)
RunLen(a, b, i, j, alo, blo) ==
  IF a[i + 1] # b[j + 1] THEN 0
  ELSE IF i > alo /\ j > blo THEN 1 + RunLen(a, b, i - 1, j - 1, alo, blo)
  ELSE 1

\* find_longest_match(alo, ahi, blo, bhi): <<besti, bestj, bestsize>>.  The
\* scan goes by rising i, then rising j, and replaces the best block only by
\* a strictly longer one: the longest block that ends first wins.
FindLongestMatch(a, b, alo, ahi, blo, bhi) ==
  LET cells == (alo..(ahi - 1)) \X (blo..(bhi - 1))
      hit == {c \in cells : RunLen(a, b, c[1], c[2], alo, blo) > 0}
      len(c) == RunLen(a, b, c[1], c[2], alo, blo)
      longest == {c \in hit : \A d \in hit : len(d) <= len(c)}
      first == CHOOSE c \in longest :
                 \A d \in longest : c[1] < d[1] \/ (c[1] = d[1] /\ c[2] <= d[2])
  IN IF hit = {} THEN <<alo, blo, 0>>
     ELSE <<first[1] - len(first) + 1, first[2] - len(first) + 1, len(first)>>

\* sum of the sizes of get_matching_blocks(): the longest match, then the
\* pieces to its left and to its right
RECURSIVE MatchTotal(_, _, _, _, _, _)
MatchTotal(a, b, alo, ahi, blo, bhi) ==
  LET m == FindLongestMatch(a, b, alo, ahi, blo, bhi)
      i == m[1]
      j == m[2]
      k == m[3]
  IN IF k = 0 THEN 0
     ELSE k
          + (IF alo < i /\ blo < j THEN MatchTotal(a, b, alo, i, blo, j) ELSE 0)
          + (IF i + k < ahi /\ j + k < bhi
               THEN MatchTotal(a, b, i + k, ahi, j + k, bhi) ELSE 0)

\* _calculate_ratio(matches, length): 2.0 * matches / length, 1.0 for length
\* 0, kept as an exact fraction
CalculateRatio(m, length) ==
  IF length = 0 THEN [num |-> 1, den |-> 1] ELSE [num |-> 2 * m, den |-> length]

\* ratio()
Ratio(a, b) ==
  CalculateRatio(MatchTotal(a, b, 0, Len(a), 0, Len(b)), Len(a) + Len(b))

Count(s, c) == Cardinality({i \in 1..Len(s) : s[i] = c})
Min2(x, y) == IF x <= y THEN x ELSE y

\* quick_ratio(): the elements a and b share, as multisets
QuickRatio(a, b) ==
  LET RECURSIVE Shared(_)
      Shared(cs) ==
        IF cs = {} THEN 0
        ELSE LET c == CHOOSE x \in cs : TRUE
             IN Min2(Count(a, c), Count(b, c)) + Shared(cs \ {c})
  IN CalculateRatio(Shared({a[i] : i \in 1..Len(a)}), Len(a) + Len(b))

\* real_quick_ratio()
RealQuickRatio(a, b) == CalculateRatio(Min2(Len(a), Len(b)), Len(a) + Len(b))

\* r >= c and r == c for two ratios
RatioGeq(r, c) == r.num * c.den >= c.num * r.den
RatioEq(r, c) == r.num * c.den = c.num * r.den

\* cutoff=0.4
LowCutoff == [num |-> 2, den |-> 5]

\* cutoff=0.5
Cutoff == [num |-> 1, den |-> 2]

\* the test of get_close_matches on one possibility x
IsClose(x, word, cutoff) ==
  /\ RatioGeq(RealQuickRatio(x, word), cutoff)
  /\ RatioGeq(QuickRatio(x, word), cutoff)
  /\ RatioGeq(Ratio(x, word), cutoff)

\* a comparison by score alone: equal scores keep the order of the catalog
ScoreGreater(p, q) == ~RatioGeq(q.score, p.score)

\* (score, x) tuples compare by score, then by x
TupleGreater(p, q) ==
  \/ ~RatioGeq(q.score, p.score)
  \/ RatioEq(p.score, q.score) /\ StrLess(q.x, p.x)

RemoveAt(seq, i) == SubSeq(seq, 1, i - 1) \o SubSeq(seq, i + 1, Len(seq))

\* heapq.nlargest(n, items): the n largest, largest first
RECURSIVE NLargest(_, _)
NLargest(n, items) ==
  IF n = 0 \/ items = <<>> THEN <<>>
  ELSE LET tops == {i \in 1..Len(items) :
                      \A j \in 1..Len(items) : ~TupleGreater(items[j], items[i])}
           best == CHOOSE i \in tops : \A j \in tops : i <= j
       IN <<items[best]>> \o NLargest(n - 1, RemoveAt(items, best))

\* difflib.get_close_matches(word, possibilities, n, cutoff)
GetCloseMatches(word, possibilities, n, cutoff) ==
  LET close == SelectSeq(possibilities, LAMBDA x : IsClose(x, word, cutoff))
      scored == [i \in 1..Len(close) |->
                   [score |-> Ratio(close[i], word), x |-> close[i]]]
      top == NLargest(n, scored)
  IN [i \in 1..Len(top) |-> top[i].x]

(***************************************************************************)
(* list(dict.fromkeys(matches))[:6]                                        *)
(***************************************************************************)
\* n=6 and [:6]
MaxResults == 6

\* list(matches): nothing removed
NoDedup(seq) == seq

\* each value once, at its last place
KeepLast(seq) ==
  LET lasts == {i \in 1..Len(seq) : \A j \in (i + 1)..Len(seq) : seq[j] # seq[i]}
      RECURSIVE Pick(_)
      Pick(i) ==
        IF i > Len(seq) THEN <<>>
        ELSE (IF i \in lasts THEN <<seq[i]>> ELSE <<>>) \o Pick(i + 1)
  IN Pick(1)

\* list(dict.fromkeys(seq)): each value once, at its first place
DictFromKeys(seq) ==
  LET firsts == {i \in 1..Len(seq) : \A j \in 1..(i - 1) : seq[j] # seq[i]}
      RECURSIVE Pick(_)
      Pick(i) ==
        IF i > Len(seq) THEN <<>>
        ELSE (IF i \in firsts THEN <<seq[i]>> ELSE <<>>) \o Pick(i + 1)
  IN Pick(1)

\* a return without the [:6]
NoLimit(seq) == seq

\* seq[:6]
Limit(seq) == SubSeq(seq, 1, Min2(Len(seq), MaxResults))

(***************************************************************************)
(* The data loaded when the module is imported, and the inputs.            *)
(***************************************************************************)
\* STOPWORDS = {...}
StopwordSet ==
  { <<"w", "h", "a", "t">>,
    <<"i">>,
    <<"w", "a", "n", "t">>,
    <<"t", "o">>,
    <<"e", "a", "t">>,
    <<"g", "i", "v", "e">>,
    <<"m", "e">>,
    <<"p", "l", "e", "a", "s", "e">>,
    <<"c", "a", "n">>,
    <<"h", "a", "v", "e">>,
    <<"s", "o", "m", "e">>,
    <<"t", "h", "e">>,
    <<"a">>,
    <<"a", "n">>,
    <<"f", "o", "r">>,
    <<"n", "e", "e", "d">>,
    <<"s", "h", "o", "w">> }

\* The entries recipes.json may hold: titles over t, o and the space, some
\* of them equal, some equal but for their case, more than MaxResults of
\* them with a word in common.
RecipeEntries ==
  << [title |-> <<"T", "o", "t">>],
     [title |-> <<"o", "t">>],
     [title |-> <<"O", "t">>],
     [title |-> <<"o", "t", "o">>],
     [title |-> <<"O", "T">>],
     [title |-> <<"o", "t", "t">>],
     [title |-> <<"o", "t", " ", "t">>],
     [title |-> <<"o", "t">>],
     [title |-> <<"T", "o">>],
     [title |-> <<"t", "o", "o">>] >>

\* RECIPES = json.load(f): up to MaxCatalog entries, taken in a row from the
\* entries above (going round from the last to the first)
Window(start, n) ==
  [i \in 1..n |-> RecipeEntries[((start + i - 2) % Len(RecipeEntries)) + 1]]

Catalogs ==
  {Window(start, n) : start \in 1..Len(RecipeEntries), n \in 0..MaxCatalog}

\* What the user types: nothing at all (None), every string of up to
\* MaxQueryLen characters, and every pair of two-letter words.
QueryChars == {"t", "o", "T", " "}
QueryLetters == QueryChars \ {" "}

Strings(S, n) == UNION {[1..k -> S] : k \in 0..n}

Str(s) == [none |-> FALSE, value |-> s]
None == [none |-> TRUE, value |-> <<>>]

Queries ==
  {None}
  \cup {Str(s) : s \in Strings(QueryChars, MaxQueryLen)}
  \cup {Str(w1 \o <<" ">> \o w2) : w1 \in [1..2 -> QueryLetters],
                                   w2 \in [1..2 -> QueryLetters]}

\* (text or "")
OrEmpty(t) == IF t.none \/ t.value = <<>> THEN <<>> ELSE t.value

(***************************************************************************)
(* parse_diet_query(text), line by line.                                   *)
(***************************************************************************)
\* the text the body works on: (text or "").lower().strip()
Normalized(t) == Strip(Lower(OrEmpty(t)))

\* a body without the early return
NeverEarly(t) == FALSE

\* if not text
EarlyReturn(t) == t = <<>>

\* [w for w in text.split() if w not in STOPWORDS and len(w)>1]
Words(t, stop) == SelectSeq(Split(t), LAMBDA w : w \notin stop /\ Len(w) > 1)

\* the test without the .lower() of the title
AnyWordInCased(ws, title) == \E k \in 1..Len(ws) : Contains(ws[k], title)

\* any(w in r["title"].lower() for w in words)
AnyWordIn(ws, title) == \E k \in 1..Len(ws) : Contains(ws[k], Lower(title))

\* [r["title"] for r in RECIPES if any(...)]
SubstringMatches(ws, recipes) ==
  LET hits == SelectSeq(recipes, LAMBDA r : AnyWordIn(ws, r.title))
  IN [i \in 1..Len(hits) |-> hits[i].title]

\* [r["title"].lower() for r in RECIPES]
LowerTitles(recipes) == [i \in 1..Len(recipes) |-> Lower(recipes[i].title)]

\* a fallback that is not guarded by the substring result
AlwaysFallback(m) == TRUE

\* if not matches
NotMatches(m) == m = <<>>

\* [f.title() for f in fuzzy]
Titled(fz) == [i \in 1..Len(fz) |-> Title(fz[i])]

Init ==
  /\ RECIPES \in Catalogs
  /\ STOPWORDS = StopwordSet
  /\ typed \in Queries
  /\ pc = "strip"
  /\ text = <<>>
  /\ words = <<>>
  /\ matches = <<>>
  /\ fuzzy = <<>>
  /\ scans = 0
  /\ fuzzyArgs = <<>>
  /\ result = <<>>
  /\ returned = <<>>
  /\ selected = <<>>
  /\ recipe = <<>>
  /\ session_state = {<<"page", "food_chat">>}
  /\ rendered = "food_chat"
  /\ clicked = "other"
  /\ runs = 1
  /\ at = "food_body"

\* text = (text or "").lower().strip(); if not text: return []
StripText ==
  /\ pc = "strip"
  /\ text' = Normalized(typed)
  /\ IF EarlyReturn(text')
       THEN /\ result' = <<>>
            /\ returned' = Append(returned, <<>>)
            /\ pc' = "done"
       ELSE /\ pc' = "words"
            /\ UNCHANGED <<result, returned>>
  /\ UNCHANGED <<RECIPES, STOPWORDS, typed, words, matches, fuzzy, scans, fuzzyArgs>>
  /\ UNCHANGED <<fetchVars, navVars>>

\* words = [...]
Tokenize ==
  /\ pc = "words"
  /\ words' = Words(text, STOPWORDS)
  /\ pc' = "matches"
  /\ UNCHANGED <<RECIPES, STOPWORDS, typed, text, matches, fuzzy, scans,
                 fuzzyArgs, result, returned>>
  /\ UNCHANGED <<fetchVars, navVars>>

\* a scan that filters RECIPES in place and returns its titles
SubstringScanInPlace ==
  /\ pc = "matches"
  /\ RECIPES' = SelectSeq(RECIPES, LAMBDA r : AnyWordIn(words, r.title))
  /\ matches' = SubstringMatches(words, RECIPES)
  /\ scans' = scans + 1
  /\ pc' = "fallback"
  /\ UNCHANGED <<STOPWORDS, typed, text, words, fuzzy, fuzzyArgs, result, returned>>
  /\ UNCHANGED <<fetchVars, navVars>>

\* matches = [...]: one pass over RECIPES
SubstringScan ==
  /\ pc = "matches"
  /\ matches' = SubstringMatches(words, RECIPES)
  /\ scans' = scans + 1
  /\ pc' = "fallback"
  /\ UNCHANGED <<RECIPES, STOPWORDS, typed, text, words, fuzzy, fuzzyArgs,
                 result, returned>>
  /\ UNCHANGED <<fetchVars, navVars>>

\* if not matches: fuzzy = difflib.get_close_matches(...); matches.extend(...)
Fallback ==
  /\ pc = "fallback"
  /\ IF NotMatches(matches)
       THEN /\ fuzzy' = GetCloseMatches(text, LowerTitles(RECIPES), MaxResults, Cutoff)
            /\ matches' = matches \o Titled(fuzzy')
            /\ scans' = scans + 1
            /\ fuzzyArgs' = Append(fuzzyArgs, text)
       ELSE UNCHANGED <<fuzzy, matches, scans, fuzzyArgs>>
  /\ pc' = "return"
  /\ UNCHANGED <<RECIPES, STOPWORDS, typed, text, words, result, returned>>
  /\ UNCHANGED <<fetchVars, navVars>>

\* return list(dict.fromkeys(matches))[:6]
Return ==
  /\ pc = "return"
  /\ result' = Limit(DictFromKeys(matches))
  /\ returned' = Append(returned, result')
  /\ pc' = "done"
  /\ UNCHANGED <<RECIPES, STOPWORDS, typed, text, words, matches, fuzzy, scans,
                 fuzzyArgs>>
  /\ UNCHANGED <<fetchVars, navVars>>

\* a lookup that compares the titles as they are written
FindRecipeCased(recipes, sel) ==
  LET found == SelectSeq(recipes, LAMBDA r : r.title = sel)
  IN IF found = <<>> THEN <<>> ELSE <<found[1]>>

\* next((r for r in RECIPES if r["title"].lower() == selected.lower()), None):
\* the first such entry, as a sequence of one; the empty sequence for None
FindRecipe(recipes, sel) ==
  LET found == SelectSeq(recipes, LAMBDA r : Lower(r.title) = Lower(sel))
  IN IF found = <<>> THEN <<>> ELSE <<found[1]>>

\* if suggestions: selected = st.selectbox("Did you mean:", suggestions);
\* recipe = next(...): the user picks any of the suggestions
Refetch ==
  /\ pc = "done"
  /\ result # <<>>
  /\ \E k \in 1..Len(result) :
       /\ selected' = result[k]
       /\ recipe' = FindRecipe(RECIPES, result[k])
  /\ pc' = "shown"
  /\ UNCHANGED <<RECIPES, STOPWORDS, typed, text, words, matches, fuzzy, scans,
                 fuzzyArgs, result, returned, navVars>>

\* The script runs again with the same text typed: food_chatbot_page calls
\* parse_diet_query(typed) once more, with fresh locals.
Rerun ==
  /\ pc \in {"done", "shown"}
  /\ Len(returned) < MaxCalls
  /\ pc' = "strip"
  /\ text' = <<>>
  /\ words' = <<>>
  /\ matches' = <<>>
  /\ fuzzy' = <<>>
  /\ scans' = 0
  /\ fuzzyArgs' = <<>>
  /\ result' = <<>>
  /\ selected' = <<>>
  /\ recipe' = <<>>
  /\ UNCHANGED <<RECIPES, STOPWORDS, typed, returned, navVars>>

Next ==
  \/ StripText
  \/ Tokenize
  \/ SubstringScan
  \/ Fallback
  \/ Return
  \/ Refetch
  \/ Rerun

Spec == Init /\ [][Next]_vars

(***************************************************************************)
(* The page navigation: the script runs from its top each time the user    *)
(* uses a widget of the page the last run has drawn; st.button(...) is     *)
(* true in the run its click has started.                                  *)
(***************************************************************************)
Pages == {"home", "diet", "food_chat", "medical_chat"}

\* "page" in st.session_state, st.session_state["page"] and
\* st.session_state["page"] = v; session_state is a set of <<key, value>>
SessionHas(k) == \E p \in session_state : p[1] = k
SessionGet(k) == (CHOOSE p \in session_state : p[1] = k)[2]
SessionSet(k, v) == {p \in session_state : p[1] # k} \cup {<<k, v>>}

\* the widgets a drawn page offers: the three buttons of home_page, the
\* Home button and the inputs of the other pages
WidgetsOn(page) ==
  CASE page = "home" -> {"btn_diet", "btn_food", "btn_medical"}
    [] page \in {"diet", "food_chat", "medical_chat"} -> {"btn_home", "other"}
    [] OTHER -> {}

\* st.button(label) of the widget w
ButtonPressed(w) == clicked = w

\* a Home button that leads to another page
WrongBackTarget == "food_chat"

\* st.session_state["page"]="home" of the three Home buttons
BackTarget == "home"

\* the first place of each page function
PageEntry(page) ==
  CASE page = "home" -> "home_1"
    [] page = "diet" -> "diet_1"
    [] page = "food_chat" -> "food_1"
    [] page = "medical_chat" -> "medical_1"

\* a new session: nothing stored, nothing drawn, no call of parse_diet_query
NavInit ==
  /\ RECIPES = <<>>
  /\ STOPWORDS = StopwordSet
  /\ typed = None
  /\ pc = "idle"
  /\ text = <<>>
  /\ words = <<>>
  /\ matches = <<>>
  /\ fuzzy = <<>>
  /\ scans = 0
  /\ fuzzyArgs = <<>>
  /\ result = <<>>
  /\ returned = <<>>
  /\ selected = <<>>
  /\ recipe = <<>>
  /\ session_state = {}
  /\ rendered = "none"
  /\ clicked = "rerun"
  /\ runs = 0
  /\ at = "idle"

queryVars == <<RECIPES, STOPWORDS, typed, pc, text, words, matches, fuzzy,
               scans, fuzzyArgs, result, returned, fetchVars>>

\* the page is loaded, or the user uses a widget of the drawn page or asks
\* for a rerun: the script starts again
StartRun ==
  /\ at = "idle"
  /\ runs < MaxRuns
  /\ \E w \in WidgetsOn(rendered) \cup {"rerun"} : clicked' = w
  /\ runs' = runs + 1
  /\ at' = "init"
  /\ UNCHANGED <<session_state, rendered, queryVars>>

\* if "page" not in st.session_state: st.session_state["page"]="home"
EnsurePage ==
  /\ at = "init"
  /\ session_state' =
       IF ~SessionHas("page") THEN SessionSet("page", "home") ELSE session_state
  /\ at' = "dispatch"
  /\ UNCHANGED <<rendered, clicked, runs, queryVars>>

\* if st.session_state["page"]=="home": home_page() elif ...: one page
\* function is called, or none
Dispatch ==
  /\ at = "dispatch"
  /\ IF SessionGet("page") \in Pages
       THEN /\ rendered' = SessionGet("page")
            /\ at' = PageEntry(SessionGet("page"))
       ELSE /\ rendered' = "none"
            /\ at' = "idle"
  /\ UNCHANGED <<session_state, clicked, runs, queryVars>>

\* st.session_state after "if st.button(...): st.session_state["page"] = target"
Clicked(w, target) ==
  IF ButtonPressed(w) THEN SessionSet("page", target) ELSE session_state

\* home_page: if st.button("Diet & Routine Planner"): ...["page"] = "diet"
HomeDietButton ==
  /\ at = "home_1"
  /\ session_state' = Clicked("btn_diet", "diet")
  /\ at' = "home_2"
  /\ UNCHANGED <<rendered, clicked, runs, queryVars>>

\* home_page: if st.button("Food Chatbot"): ...["page"] = "food_chat"
HomeFoodButton ==
  /\ at = "home_2"
  /\ session_state' = Clicked("btn_food", "food_chat")
  /\ at' = "home_3"
  /\ UNCHANGED <<rendered, clicked, runs, queryVars>>

\* home_page: if st.button("Medical Chatbot"): ...["page"] = "medical_chat"
HomeMedicalButton ==
  /\ at = "home_3"
  /\ session_state' = Clicked("btn_medical", "medical_chat")
  /\ at' = "idle"
  /\ UNCHANGED <<rendered, clicked, runs, queryVars>>

\* diet_planner_page: if st.button("Home"): ...["page"]="home"; the rest of
\* the page does not touch st.session_state["page"]
DietHomeButton ==
  /\ at = "diet_1"
  /\ session_state' = Clicked("btn_home", BackTarget)
  /\ at' = "idle"
  /\ UNCHANGED <<rendered, clicked, runs, queryVars>>

\* food_chatbot_page: if st.button("Home"): ...["page"] = "home"
FoodHomeButton ==
  /\ at = "food_1"
  /\ session_state' = Clicked("btn_home", BackTarget)
  /\ at' = "idle"
  /\ UNCHANGED <<rendered, clicked, runs, queryVars>>

\* medical_chatbot_page: if st.button("Home"): ...["page"] = "home"
MedicalHomeButton ==
  /\ at = "medical_1"
  /\ session_state' = Clicked("btn_home", BackTarget)
  /\ at' = "idle"
  /\ UNCHANGED <<rendered, clicked, runs, queryVars>>

NavNext ==
  \/ StartRun
  \/ EnsurePage
  \/ Dispatch
  \/ HomeDietButton
  \/ HomeFoodButton
  \/ HomeMedicalButton
  \/ DietHomeButton
  \/ FoodHomeButton
  \/ MedicalHomeButton

NavSpec == NavInit /\ [][NavNext]_vars

(***************************************************************************)
(* The vocabulary of the claims, stated on the inputs of a call.           *)
(***************************************************************************)
Range(seq) == {seq[i] : i \in 1..Len(seq)}

\* the lowercased query
QueryLower == Lower(OrEmpty(typed))

\* the whitespace-separated words of the lowercased query
QueryWords ==
  LET s == QueryLower
  IN {SubSeq(s, i, j) : <<i, j>> \in
        {p \in (1..Len(s)) \X (1..Len(s)) :
           /\ p[1] <= p[2]
           /\ \A k \in p[1]..p[2] : s[k] # " "
           /\ (p[1] = 1 \/ s[p[1] - 1] = " ")
           /\ (p[2] = Len(s) \/ s[p[2] + 1] = " ")}}

\* the tokens: the words longer than one character that are no stopwords
QueryTokens == {w \in QueryWords : Len(w) > 1 /\ w \notin StopwordSet}

\* the places of the catalog entries with a token of the query in their
\* lowercased title
MatchingEntries ==
  LET tokens == QueryTokens
  IN {i \in 1..Len(RECIPES) :
        \E w \in tokens : Contains(w, Lower(RECIPES[i].title))}

Done == pc = "done"
BlankQuery == \A k \in 1..Len(QueryLower) : QueryLower[k] = " "
OnSubstringPath == Done /\ MatchingEntries # {}
OnFuzzyPath == Done /\ ~BlankQuery /\ MatchingEntries = {}

\* the similarity of a title to the full normalized query
Similarity(title) == Ratio(Lower(title), Strip(QueryLower))
BelowHalf(r) == 2 * r.num < r.den

\* the similarities of the titles of a sequence, in its order
RECURSIVE SimilaritiesUpTo(_, _)
SimilaritiesUpTo(titles, n) ==
  IF n = 0 THEN <<>>
  ELSE Append(SimilaritiesUpTo(titles, n - 1), Similarity(titles[n]))

Similarities(titles) == SimilaritiesUpTo(titles, Len(titles))
CatalogTitles == [i \in 1..Len(RECIPES) |-> RECIPES[i].title]

(***************************************************************************)
(* The claims.                                                             *)
(***************************************************************************)
\* C1: whatever the query and the catalog, and whichever path produced it,
\* the sequence a call returns has at most 6 entries.
C1_AtMostSix ==
  /\ Done => Len(result) <= 6
  /\ \A k \in 1..Len(returned) : Len(returned[k]) <= 6

\* C1 witness: a call has returned 6 titles out of more than 6 distinct
\* matching ones.
C1_Witness ==
  /\ Done
  /\ Cardinality(Range(matches)) > 6
  /\ Len(result) = 6

\* C2 (as claimed): a query whose words are all stopwords yields no tokens
\* and the empty result, for every catalog.
StopwordOnly == QueryWords \subseteq StopwordSet

C2_StopwordOnlyEmpty ==
  (Done /\ StopwordOnly) => (words = <<>> /\ result = <<>>)

\* C3 (as claimed): every catalog title that contains a token of the query
\* is in the result.
C3_EveryMatchReturned ==
  Done => \A i \in MatchingEntries : RECIPES[i].title \in Range(result)

\* C3 (amended): a catalog title that contains a token of the query is in
\* the result unless 6 other distinct matching titles come before it in
\* the catalog.
EarlierMatchingTitles(matching, i) ==
  {RECIPES[j].title : j \in {m \in matching : m < i}} \ {RECIPES[i].title}

C3_MatchReturnedUnlessSixEarlier ==
  Done =>
    LET matching == MatchingEntries
    IN \A i \in matching :
         \/ RECIPES[i].title \in Range(result)
         \/ Cardinality(EarlierMatchingTitles(matching, i)) >= 6

\* C3 witness: a call with two tokens has returned a title that contains
\* only the second of them, in another case than the token has.
C3_Witness ==
  /\ Done
  /\ Cardinality(QueryTokens) = 2
  /\ \E i \in MatchingEntries :
       /\ RECIPES[i].title \in Range(result)
       /\ RECIPES[i].title # Lower(RECIPES[i].title)
       /\ \E w \in QueryTokens : ~Contains(w, Lower(RECIPES[i].title))

\* C4: for a missing, empty or whitespace-only query the call returns the
\* empty sequence at its first step: it never reaches the later steps, never
\* scans the catalog and never calls the fuzzy matcher.
C4_BlankReturnsAtOnce ==
  BlankQuery =>
    /\ pc \in {"strip", "done"}
    /\ scans = 0
    /\ fuzzyArgs = <<>>
    /\ matches = <<>>
    /\ result = <<>>
    /\ \A k \in 1..Len(returned) : returned[k] = <<>>

\* C4 witness: a call with a whitespace-only query on a catalog with entries
\* has returned.
C4_Witness ==
  /\ Done
  /\ BlankQuery
  /\ ~typed.none
  /\ typed.value # <<>>
  /\ RECIPES # <<>>
  /\ returned # <<>>

\* C5: the fuzzy matcher is called at most once in a call, only when no
\* catalog title contains a token, and with the full lowercased, trimmed
\* query; a returned sequence holds either catalog titles as they are in
\* the catalog, or title-cased results of the fuzzy matcher, never both.
C5_OnePath ==
  /\ fuzzyArgs # <<>> =>
       /\ Len(fuzzyArgs) = 1
       /\ fuzzyArgs[1] = Strip(QueryLower)
       /\ MatchingEntries = {}
       /\ matches = Titled(fuzzy)
  /\ Done =>
       \/ /\ fuzzyArgs = <<>>
          /\ Range(result) \subseteq {RECIPES[i].title : i \in MatchingEntries}
       \/ /\ fuzzyArgs # <<>>
          /\ Range(result) \subseteq Range(Titled(fuzzy))

\* C5 witness: a call with a query of two tokens, which differs from its
\* token list, has returned results of the fuzzy matcher.
C5_Witness ==
  /\ Done
  /\ fuzzyArgs # <<>>
  /\ Cardinality(QueryTokens) = 2
  /\ result # <<>>

\* the first place of the catalog whose lowercased title is that of t
CatalogPlace(t) ==
  CHOOSE i \in 1..Len(RECIPES) :
    /\ Lower(RECIPES[i].title) = Lower(t)
    /\ \A j \in 1..(i - 1) : Lower(RECIPES[j].title) # Lower(t)

\* C6 (as claimed): on the fuzzy path the results come by falling
\* similarity, and results of equal similarity in catalog order.
C6_TiesInCatalogOrder ==
  OnFuzzyPath =>
    LET sim == Similarities(result)
    IN \A k \in 1..Len(result) : \A l \in (k + 1)..Len(result) :
         /\ RatioGeq(sim[k], sim[l])
         /\ RatioEq(sim[k], sim[l])
              => CatalogPlace(result[k]) < CatalogPlace(result[l])

\* C6 (amended): on the fuzzy path the results come by falling similarity,
\* and results of equal similarity by falling string order of their
\* lowercased titles (the later in Python's str order first).
C6_TiesInFallingStringOrder ==
  OnFuzzyPath =>
    LET sim == Similarities(result)
    IN \A k \in 1..Len(result) : \A l \in (k + 1)..Len(result) :
         /\ RatioGeq(sim[k], sim[l])
         /\ RatioEq(sim[k], sim[l])
              => StrLess(Lower(result[l]), Lower(result[k]))

\* C6 witness: a fuzzy call has returned two titles of equal similarity and
\* one of lower similarity; the two come in the catalog in rising string
\* order.
C6_Witness ==
  /\ OnFuzzyPath
  /\ QueryTokens # {}
  /\ LET sim == Similarities(result)
     IN \E k, l, m \in 1..Len(result) :
          /\ k < l
          /\ l < m
          /\ RatioEq(sim[k], sim[l])
          /\ ~RatioGeq(sim[m], sim[l])
          /\ CatalogPlace(result[l]) < CatalogPlace(result[k])

\* C7: on the fuzzy path the result holds at most 6 entries, each the
\* title-cased form of a catalog title whose similarity to the full
\* normalized query is at least 0.5; no title of lower similarity is in it,
\* and it is empty when no title reaches 0.5.
C7_FuzzyResults ==
  OnFuzzyPath =>
    LET sim == Similarities(CatalogTitles)
    IN /\ Len(result) <= 6
       /\ \A k \in 1..Len(result) :
            \E i \in 1..Len(RECIPES) :
              /\ result[k] = Title(Lower(RECIPES[i].title))
              /\ ~BelowHalf(sim[i])
       /\ \A i \in 1..Len(RECIPES) :
            BelowHalf(sim[i])
              => \A k \in 1..Len(result) : Lower(result[k]) # Lower(RECIPES[i].title)
       /\ (\A i \in 1..Len(RECIPES) : BelowHalf(sim[i])) => result = <<>>

\* C7 witness: a fuzzy call on a catalog with a title under 0.5 and a title
\* of exactly 0.5 has returned a title that is not written in title-case in
\* the catalog.
C7_Witness ==
  /\ OnFuzzyPath
  /\ QueryTokens # {}
  /\ \E i \in 1..Len(RECIPES) : BelowHalf(Similarity(RECIPES[i].title))
  /\ \E i \in 1..Len(RECIPES) :
       /\ RatioEq(Similarity(RECIPES[i].title), [num |-> 1, den |-> 2])
       /\ RECIPES[i].title # Title(Lower(RECIPES[i].title))
       /\ Title(Lower(RECIPES[i].title)) \in Range(result)

\* C8 (as claimed): no two entries of a substring-path result are equal
\* after lowercasing.
C8_NoCaseDuplicates ==
  OnSubstringPath =>
    \A k \in 1..Len(result) : \A l \in (k + 1)..Len(result) :
      Lower(result[k]) # Lower(result[l])

\* C8 (amended): when the catalog titles that are equal after lowercasing
\* are equal as they stand, no two entries of a substring-path result are
\* equal after lowercasing.
TitlesCaseUnique ==
  \A i, j \in 1..Len(RECIPES) :
    Lower(RECIPES[i].title) = Lower(RECIPES[j].title)
      => RECIPES[i].title = RECIPES[j].title

C8_NoCaseDuplicatesOfUniqueTitles ==
  (OnSubstringPath /\ TitlesCaseUnique) =>
    \A k \in 1..Len(result) : \A l \in (k + 1)..Len(result) :
      Lower(result[k]) # Lower(result[l])

\* C8 witness: a substring call on such a catalog, with the same title at
\* two matching entries, has returned two titles or more.
C8_Witness ==
  /\ OnSubstringPath
  /\ TitlesCaseUnique
  /\ \E i, j \in MatchingEntries : i # j /\ RECIPES[i].title = RECIPES[j].title
  /\ Len(result) >= 2

\* C9: on the substring path the result is the titles of the first 6
\* matching entries that carry a title no earlier matching entry carries,
\* in catalog order; no two of its entries are equal.
FirstOccurrences ==
  LET matching == MatchingEntries
  IN {i \in matching :
        \A j \in matching : j < i => RECIPES[j].title # RECIPES[i].title}

C9_FirstSixDistinctInOrder ==
  OnSubstringPath =>
    /\ LET firsts == FirstOccurrences
       IN /\ Len(result) = Min2(6, Cardinality(firsts))
          /\ \A k \in 1..Len(result) :
               \E i \in firsts :
                 /\ result[k] = RECIPES[i].title
                 /\ Cardinality({j \in firsts : j < i}) = k - 1
    /\ \A k \in 1..Len(result) : \A l \in (k + 1)..Len(result) :
         result[k] # result[l]

\* C9 witness: a substring call has returned 6 titles of a catalog where a
\* title matches twice, with another matching title between, and more than
\* 6 entries match.
C9_Witness ==
  /\ OnSubstringPath
  /\ Len(result) = 6
  /\ Cardinality(MatchingEntries) > 6
  /\ \E i, j, m \in MatchingEntries :
       /\ i < m
       /\ m < j
       /\ RECIPES[i].title = RECIPES[j].title
       /\ RECIPES[i].title # RECIPES[m].title
       /\ RECIPES[m].title \in Range(result)

\* C10: all the calls made with the same query on the catalog return the
\* same sequence, and no step of a call changes RECIPES or STOPWORDS.
C10_DeterministicNoSideEffect ==
  /\ [](\A k, l \in 1..Len(returned) : returned[k] = returned[l])
  /\ [][RECIPES' = RECIPES /\ STOPWORDS' = STOPWORDS]_vars

\* C10 witness: two calls with the same query have returned a sequence that
\* is not empty.
C10_Witness ==
  /\ Done
  /\ Len(returned) >= 2
  /\ returned[1] # <<>>
  /\ returned[2] = returned[1]

PageNow == SessionGet("page")
FeaturePages == Pages \ {"home"}

C12_PageNavigation ==
  /\ [](SessionHas("page") => PageNow \in Pages)
  /\ [][SessionHas("page") => SessionHas("page")']_vars
  /\ [][(~SessionHas("page") /\ SessionHas("page")') => PageNow' = "home"]_vars
  /\ [][(SessionHas("page") /\ PageNow' # PageNow) =>
          \/ /\ PageNow = "home"
             /\ rendered = "home"
             /\ \/ clicked = "btn_diet" /\ PageNow' = "diet"
                \/ clicked = "btn_food" /\ PageNow' = "food_chat"
                \/ clicked = "btn_medical" /\ PageNow' = "medical_chat"
          \/ /\ PageNow \in FeaturePages
             /\ rendered = PageNow
             /\ clicked = "btn_home"
             /\ PageNow' = "home"]_vars
  /\ [][at = "dispatch" => (rendered' = PageNow /\ PageNow' = PageNow)]_vars
  /\ [][rendered' # rendered => at = "dispatch"]_vars

\* C12 witness: the medical page has run with its Home button clicked, after
\* the home page sent the user there: home is stored, the medical page drawn.
C12_Witness ==
  /\ at = "idle"
  /\ SessionHas("page")
  /\ PageNow = "home"
  /\ rendered = "medical_chat"
  /\ clicked = "btn_home"

====
